---- MODULE Spec2Model ----
(***************************************************************************)
(* Look-up-table construction of pyFAI's bounding-box pixel splitting      *)
(* (src/pyFAI/ext/splitBBoxLUT.pyx): the classes HistoBBox1d and           *)
(* HistoBBox2d, their bounds calculators and their LUT builders.           *)
(*                                                                         *)
(* position_t / acc_t values are modelled as exact rationals [n, d] in     *)
(* lowest terms with d > 0.  d = 0 encodes the non-finite IEEE values a    *)
(* division by a zero bin width produces: n > 0 is +inf, n < 0 is -inf,    *)
(* n = 0 is NaN.  Rounding of the binary floating formats is not modelled. *)
(***************************************************************************)
EXTENDS Integers, Sequences, FiniteSets, TLC

VARIABLES
    pc,          \* position of the constructor: "new", "bounds", "delta", "done"
    args,        \* the constructor's arguments (never modified)
    cpos0_inf,   \* self.cpos0_inf: stored lower primary edge of every pixel
    cpos0_sup,   \* self.cpos0_sup: stored upper primary edge of every pixel
    cpos1_inf,   \* self.cpos1_inf (2D) / self.cpos1_min (1D)
    cpos1_sup,   \* self.cpos1_sup (2D) / self.cpos1_max (1D)
    pos0_min,    \* self.pos0_min
    pos0_maxin,  \* self.pos0_maxin
    pos0_max,    \* self.pos0_max
    pos1_min,    \* self.pos1_min
    pos1_maxin,  \* self.pos1_maxin
    pos1_max,    \* self.pos1_max
    delta,       \* self.delta (1D) / self.delta0 (2D)
    delta1,      \* self.delta1 (2D)
    lut,         \* the look-up table handed to LutIntegrator
    calls,       \* the methods the constructor has called so far, in order
    launch,      \* reduction kernels: WORKGROUP_SIZE, the buffer and its length
    stage,       \* reduction kernels: "idle", "reduce1", "reduce2", "finished"
    group,       \* get_group_id(0) of the work-group being executed
    kpc,         \* position of every work-item of the group in the kernel
    accumulator, \* private accumulator of every work-item (reduce1)
    active_threads, \* private active_threads of every work-item
    scratch,     \* __local float2 scratch[WORKGROUP_SIZE] of the group
    accesses,    \* scratch slots read / written since the last barrier, per work-item
    preresult,   \* __global float2* preresult
    result       \* __global float4* result

\* The state of the LUT construction and the state of the reduction kernels.
lutvars == <<pc, args, cpos0_inf, cpos0_sup, cpos1_inf, cpos1_sup, pos0_min,
             pos0_maxin, pos0_max, pos1_min, pos1_maxin, pos1_max, delta, delta1, lut, calls>>
kernelvars == <<launch, stage, group, kpc, accumulator, active_threads, scratch,
                accesses, preresult, result>>

vars == <<lutvars, kernelvars>>

\* An absent argument, an array not yet allocated.
None == <<>>

-----------------------------------------------------------------------------
(* Exact arithmetic on position_t / acc_t values.                          *)

RECURSIVE GCD(_, _)
GCD(a, b) == IF b = 0 THEN a ELSE GCD(b, a % b)

Abs(x) == IF x < 0 THEN -x ELSE x

Sign(x) == IF x > 0 THEN 1 ELSE IF x < 0 THEN -1 ELSE 0

\* The value n/d: lowest terms, d > 0; n/0 is +inf, -inf or NaN by the sign of n.
Rat(n, d) ==
    IF d = 0 THEN [n |-> Sign(n), d |-> 0]
    ELSE LET g == GCD(Abs(n), Abs(d))
             s == IF d < 0 THEN -1 ELSE 1
         IN  [n |-> (s * n) \div g, d |-> (s * d) \div g]

R(i) == [n |-> i, d |-> 1]

IsFinite(a) == a.d > 0
IsNaN(a) == a.d = 0 /\ a.n = 0

RNeg(a) == [n |-> -a.n, d |-> a.d]

RAdd(a, b) ==
    IF IsFinite(a) /\ IsFinite(b) THEN Rat(a.n * b.d + b.n * a.d, a.d * b.d)
    ELSE IF IsNaN(a) \/ IsNaN(b) THEN Rat(0, 0)
    ELSE IF IsFinite(b) THEN a
    ELSE IF IsFinite(a) THEN b
    ELSE IF a.n = b.n THEN a ELSE Rat(0, 0)

RSub(a, b) == RAdd(a, RNeg(b))

RMul(a, b) == Rat(a.n * b.n, a.d * b.d)

\* a / b as the hardware divides floats (cdivision=True: no ZeroDivisionError).
RDiv(a, b) == RMul(a, Rat(b.d, b.n))

\* a < b; every comparison with NaN is false.
RLt(a, b) ==
    IF IsNaN(a) \/ IsNaN(b) THEN FALSE
    ELSE IF IsFinite(a) /\ IsFinite(b) THEN a.n * b.d < b.n * a.d
    ELSE IF IsFinite(a) THEN b.n > 0
    ELSE IF IsFinite(b) THEN a.n < 0
    ELSE a.n < b.n

RGt(a, b) == RLt(b, a)
RLe(a, b) == ~IsNaN(a) /\ ~IsNaN(b) /\ ~RLt(b, a)

\* A scalar attribute that has not been assigned yet.
Unset == Rat(0, 0)

Zero == R(0)
One == R(1)

\* floor of a finite value (the mathematical bin of a continuous position).
Floor(a) == a.n \div a.d

-----------------------------------------------------------------------------
(* Helpers included from regrid_common.pxi and sparse_builder (not under   *)
(* src/): modelled from the specification.                                 *)

\* Relative epsilon of calc_upper_bound.  The program uses the float32 machine
\* epsilon; the model uses a coarse one so that bin edges fall on small rationals.
EPS32 == Rat(1, 3)

\* The wrap constant of the periodic secondary dimension, on the model's grid.
pi == R(3)

\* Upper bound of an interval from its true maximum: a relative epsilon is applied.
calc_upper_bound(maximum_value) ==
    IF RGt(maximum_value, Zero) THEN RMul(maximum_value, RAdd(One, EPS32))
    ELSE RMul(maximum_value, RSub(One, EPS32))

\* Continuous bin position: (x0 - pos0_min) / delta.
get_bin_number(x0, min0, dlt) == RDiv(RSub(x0, min0), dlt)

\* SparseBuilder.cinsert: append one (bin, pixel, weight) contribution.
cinsert(builder, bin, idx, coef) == Append(builder, [bin |-> bin, idx |-> idx, coef |-> coef])

\* SparseBuilder.to_lut: per bin, the (pixel, weight) pairs inserted into it.
to_lut(builder, nbins) ==
    [b \in 0..(nbins - 1) |->
        LET sel == SelectSeq(builder, LAMBDA e : e.bin = b)
        IN  [k \in 1..Len(sel) |-> [idx |-> sel[k].idx, coef |-> sel[k].coef]]]

-----------------------------------------------------------------------------
(* The C cast <int> of a floating value.                                   *)

\* Bounds of a 32-bit int, written so that no intermediate value exceeds them.
INT_MAX == 2^30 + (2^30 - 1)
INT_MIN == -(2^30) - 2^30

\* What <int> yields for a non-finite operand is undefined in C; the outcome
\* depends on the build target: cvttsd2si yields INT_MIN for every non-finite
\* operand, a saturating conversion yields 0 for NaN and the nearest bound else.
Targets == {"indefinite", "saturating"}

\* <int> f: truncation toward zero for a finite value.
cast_int(f, target) ==
    IF IsFinite(f) THEN (IF f.n >= 0 THEN f.n \div f.d ELSE -((-f.n) \div f.d))
    ELSE IF target = "indefinite" THEN INT_MIN
    ELSE IF IsNaN(f) THEN 0
    ELSE IF f.n > 0 THEN INT_MAX ELSE INT_MIN

\* Concatenation of the sequences s[1], ..., s[Len(s)].
RECURSIVE Flatten(_)
Flatten(s) == IF s = <<>> THEN <<>> ELSE Head(s) \o Flatten(Tail(s))

-----------------------------------------------------------------------------
(* Shared reading of the constructor's arguments.                          *)

\* range(size)
Pixels(a) == 0..(a.size - 1)

\* x.size of an array; an absent array (None) has no size attribute.
Size(x) == Cardinality(DOMAIN x)

\* Mutation of Splitting: only an absent delta_pos0 disables the splitting.
Splitting_UnlessAbsent(a) == a.delta_pos0 # None

\* HistoBBox1d.__init__: splitting is kept only when delta_pos0 has a size
\* attribute and its size is the number of pixels.
Splitting(a) == a.delta_pos0 # None /\ Size(a.delta_pos0) = a.size

\* self.check_mask
check_mask(a) == a.mask # None

\* Mutation of Masked: the mask is never consulted.
Masked_Ignored(a, idx) == FALSE

\* (check_mask) and (cmask[idx]): pixel idx is masked out.
Masked(a, idx) == check_mask(a) /\ a.mask[idx] # 0

\* Mutation of AssertMask: the size of the mask is not checked.
AssertMask_Skipped(a) == TRUE

\* assert mask.size == self.size, "mask size"
AssertMask(a) == a.mask # None => Size(a.mask) = a.size

\* HistoBBox1d: assert pos1.size == self.size; assert delta_pos1.size == self.size
AssertPos1(a) == Size(a.pos1) = a.size /\ Size(a.delta_pos1) = a.size

\* HistoBBox2d: the three assertions on delta_pos0.size, pos1.size, delta_pos1.size
AssertSizes2d(a) ==
    Size(a.delta_pos0) = a.size /\ Size(a.pos1) = a.size /\ Size(a.delta_pos1) = a.size

\* HistoBBox2d.__init__: bins0, bins1, each raised to 1 when <= 0.
Bins2d(a) ==
    << IF a.bins[1] <= 0 THEN 1 ELSE a.bins[1], IF a.bins[2] <= 0 THEN 1 ELSE a.bins[2] >>

\* Running (min, max) after folding one pixel's (lower, upper) into it.
Fold(b, lower, upper) ==
    [min |-> IF RLt(lower, b.min) THEN lower ELSE b.min,
     max |-> IF RGt(upper, b.max) THEN upper ELSE b.max]

\* "if not allow_pos0_neg and x < 0: x = 0"
ClampNeg(a, x) == IF ~a.allow_pos0_neg /\ RLt(x, Zero) THEN Zero ELSE x

\* pos0_min = pos0_max = cpos0[0], set to 0 when negative values are disallowed.
FirstBounds1d(a) ==
    LET c0 == ClampNeg(a, a.pos0[0]) IN [min |-> c0, max |-> c0]

\* Mutation of SelectRange: the result of the scan wins over the explicit range.
SelectRange_Scanned(range, scanned) == scanned

\* "self.pos0_min, self.pos0_maxin = pos0_range" or the result of the scan.
SelectRange(range, scanned) ==
    IF range # None THEN [min |-> range[1], max |-> range[2]] ELSE scanned

-----------------------------------------------------------------------------
(* HistoBBox1d.calc_boundaries                                             *)

\* cpos0_inf[idx] = lower: stored before the clamp to 0.
Stored1dInf(a, idx) == RSub(a.pos0[idx], a.delta_pos0[idx])

\* cpos0_sup[idx] = upper
Stored1dSup(a, idx) == RAdd(a.pos0[idx], a.delta_pos0[idx])

\* The scan loop, pixels idx..size-1, from the running bounds b.
RECURSIVE Scan1d(_, _, _)
Scan1d(a, idx, b) ==
    IF idx >= a.size THEN b
    ELSE LET lower == ClampNeg(a, Stored1dInf(a, idx))
             upper == Stored1dSup(a, idx)
         IN  Scan1d(a, idx + 1, IF ~Masked(a, idx) THEN Fold(b, lower, upper) ELSE b)

\* The scan loop of calc_boundaries_nosplit.
RECURSIVE ScanNosplit(_, _, _)
ScanNosplit(a, idx, b) ==
    IF idx >= a.size THEN b
    ELSE LET c == ClampNeg(a, a.pos0[idx])
         IN  ScanNosplit(a, idx + 1, IF ~Masked(a, idx) THEN Fold(b, c, c) ELSE b)

\* (self.pos0_min, self.pos0_maxin) of the splitting path.
Bounds1d(a) == SelectRange(a.pos0_range, Scan1d(a, 0, FirstBounds1d(a)))

\* (self.pos0_min, self.pos0_maxin) of the no-split path: no scan under a range.
BoundsNosplit(a) ==
    IF a.pos0_range # None THEN SelectRange(a.pos0_range, [min |-> Zero, max |-> Zero])
    ELSE ScanNosplit(a, 0, FirstBounds1d(a))

calc_boundaries ==
    /\ pc = "new"
    /\ args.cls = "HistoBBox1d"
    /\ AssertMask(args)
    /\ Splitting(args)
    /\ LET b == Bounds1d(args)
       IN  /\ cpos0_inf' = [idx \in Pixels(args) |-> Stored1dInf(args, idx)]
           /\ cpos0_sup' = [idx \in Pixels(args) |-> Stored1dSup(args, idx)]
           /\ pos0_min' = ClampNeg(args, b.min)
           /\ pos0_maxin' = b.max
           /\ pos0_max' = calc_upper_bound(b.max)
    /\ pc' = "bounds"
    /\ UNCHANGED <<args, cpos1_inf, cpos1_sup, pos1_min, pos1_maxin, pos1_max, delta, delta1, lut>>
    /\ calls' = Append(calls, "calc_boundaries")
    /\ UNCHANGED kernelvars

calc_boundaries_nosplit ==
    /\ pc = "new"
    /\ args.cls = "HistoBBox1d"
    /\ AssertMask(args)
    /\ ~Splitting(args)
    /\ LET b == BoundsNosplit(args)
       IN  /\ pos0_min' = ClampNeg(args, b.min)
           /\ pos0_maxin' = b.max
           /\ pos0_max' = calc_upper_bound(b.max)
    /\ pc' = "bounds"
    /\ UNCHANGED <<args, cpos0_inf, cpos0_sup, cpos1_inf, cpos1_sup, pos1_min, pos1_maxin,
                   pos1_max, delta, delta1, lut>>
    /\ calls' = Append(calls, "calc_boundaries_nosplit")
    /\ UNCHANGED kernelvars

-----------------------------------------------------------------------------
(* HistoBBox1d.__init__, after the bounds: secondary filter and bin width. *)

\* self.check_pos1
check_pos1(a) == a.pos1_range # None

\* "if pos1_range is not None: ... else: ...": the secondary filter is set up.
SecondaryFilter ==
    IF check_pos1(args)
    THEN /\ cpos1_inf' = [idx \in Pixels(args) |-> RSub(args.pos1[idx], args.delta_pos1[idx])]
         /\ cpos1_sup' = [idx \in Pixels(args) |-> RAdd(args.pos1[idx], args.delta_pos1[idx])]
         /\ pos1_min' = args.pos1_range[1]
         /\ pos1_max' = calc_upper_bound(args.pos1_range[2])
    ELSE UNCHANGED <<cpos1_inf, cpos1_sup, pos1_min, pos1_max>>

HistoBBox1d_delta ==
    /\ pc = "bounds"
    /\ args.cls = "HistoBBox1d"
    /\ check_pos1(args) => AssertPos1(args)
    /\ args.bins # 0
    /\ SecondaryFilter
    /\ delta' = RDiv(RSub(pos0_max, pos0_min), R(args.bins))
    /\ pc' = "delta"
    /\ UNCHANGED <<args, cpos0_inf, cpos0_sup, pos0_min, pos0_maxin, pos0_max, pos1_maxin,
                   delta1, lut>>
    /\ UNCHANGED calls
    /\ UNCHANGED kernelvars

\* HistoBBox1d.__init__, line 155 with bins = 0: self.pos0_max and self.pos0_min are
\* Python objects, their difference is divided as Python divides: ZeroDivisionError.
HistoBBox1d_ZeroDivisionError ==
    /\ pc = "bounds"
    /\ args.cls = "HistoBBox1d"
    /\ check_pos1(args) => AssertPos1(args)
    /\ args.bins = 0
    /\ SecondaryFilter
    /\ pc' = "ZeroDivisionError"
    /\ UNCHANGED <<args, cpos0_inf, cpos0_sup, pos0_min, pos0_maxin, pos0_max, pos1_maxin,
                   delta, delta1, lut>>
    /\ UNCHANGED calls
    /\ UNCHANGED kernelvars

\* HistoBBox1d.__init__: an assertion on the mask (before the bounds) or on the
\* secondary arrays (after the bounds) fails; the construction is abandoned.
HistoBBox1d_AssertionError ==
    /\ args.cls = "HistoBBox1d"
    /\ \/ pc = "new" /\ ~AssertMask(args)
       \/ pc = "bounds" /\ check_pos1(args) /\ ~AssertPos1(args)
    /\ pc' = "AssertionError"
    /\ UNCHANGED <<args, cpos0_inf, cpos0_sup, cpos1_inf, cpos1_sup, pos0_min, pos0_maxin,
                   pos0_max, pos1_min, pos1_maxin, pos1_max, delta, delta1, lut>>
    /\ UNCHANGED calls
    /\ UNCHANGED kernelvars

\* HistoBBox2d.__init__: one of the assertions on the sizes fails.
HistoBBox2d_AssertionError ==
    /\ args.cls = "HistoBBox2d"
    /\ pc = "new"
    /\ ~(AssertSizes2d(args) /\ AssertMask(args))
    /\ pc' = "AssertionError"
    /\ UNCHANGED <<args, cpos0_inf, cpos0_sup, cpos1_inf, cpos1_sup, pos0_min, pos0_maxin,
                   pos0_max, pos1_min, pos1_maxin, pos1_max, delta, delta1, lut>>
    /\ UNCHANGED calls
    /\ UNCHANGED kernelvars

\* The secondary filter of the 1D builders: the pixel misses [pos1_min, pos1_max].
FilteredPos1(a, idx, c1min, c1max, p1min, p1max) ==
    check_pos1(a) /\ (RLt(c1max[idx], p1min) \/ RGt(c1min[idx], p1max))

-----------------------------------------------------------------------------
(* The splitting of one axis, shared by the 1D and the 2D builders.        *)

\* bin_min, bin_max of an axis after the clamps into [0, bins-1].
ClampBinMin(b) == IF b < 0 THEN 0 ELSE b
ClampBinMax(b, bins) == IF b >= bins THEN bins - 1 ELSE b

\* "(bin_max < 0) or (bin_min >= bins)": the pixel is outside of the axis.
OutOfAxis(bmin, bmax, bins) == bmax < 0 \/ bmin >= bins

\* Mutation of DeltaLow: the distance is taken from bin_min instead of bin_min + 1.
DeltaLow_FromBinMin(bmin, fmin) == RSub(R(bmin), fmin)

\* delta_left / delta_down: <acc_t>(bin_min + 1) - fbin_min
DeltaLow(bmin, fmin) == RSub(R(bmin + 1), fmin)

\* delta_right / delta_up: fbin_max - <acc_t> bin_max
DeltaHigh(bmax, fmax) == RSub(fmax, R(bmax))

\* Mutation of Interior: the loop runs one bin too far, up to bin_max included.
Interior_Inclusive(bmin, bmax) == [k \in 1..(bmax - bmin) |-> bmin + k]

\* for i in range(bin_min + 1, bin_max)
Interior(bmin, bmax) == [k \in 1..(bmax - bmin - 1) |-> bmin + k]

-----------------------------------------------------------------------------
(* HistoBBox1d.calc_lut                                                    *)

\* The contributions inserted for pixel idx, in the order of the insertions.
Entries1d(a, idx, inf, sup, p0min, dlt, c1min, c1max, p1min, p1max, target) ==
    IF Masked(a, idx) THEN <<>>
    ELSE IF FilteredPos1(a, idx, c1min, c1max, p1min, p1max) THEN <<>>
    ELSE
    LET fbin0_min == get_bin_number(inf[idx], p0min, dlt)
        fbin0_max == get_bin_number(sup[idx], p0min, dlt)
        b0min == cast_int(fbin0_min, target)
        b0max == cast_int(fbin0_max, target)
        bin0_min == ClampBinMin(b0min)
        bin0_max == ClampBinMax(b0max, a.bins)
    IN  IF OutOfAxis(b0min, b0max, a.bins) THEN <<>>
        ELSE IF bin0_min = bin0_max THEN cinsert(<<>>, bin0_min, idx, One)
        ELSE LET inv_area == RDiv(One, RSub(fbin0_max, fbin0_min))
                 delta_left == DeltaLow(bin0_min, fbin0_min)
                 delta_right == DeltaHigh(bin0_max, fbin0_max)
                 inner == Interior(bin0_min, bin0_max)
             IN  cinsert(cinsert(<<>>, bin0_min, idx, RMul(inv_area, delta_left)),
                         bin0_max, idx, RMul(inv_area, delta_right))
                 \o [k \in 1..Len(inner) |-> [bin |-> inner[k], idx |-> idx, coef |-> inv_area]]

calc_lut ==
    /\ pc = "delta"
    /\ args.cls = "HistoBBox1d"
    /\ Splitting(args)
    /\ \E target \in Targets :
          lut' = to_lut(Flatten([i \in 1..args.size |->
                            Entries1d(args, i - 1, cpos0_inf, cpos0_sup, pos0_min, delta,
                                      cpos1_inf, cpos1_sup, pos1_min, pos1_max, target)]),
                        args.bins)
    /\ pc' = "done"
    /\ UNCHANGED <<args, cpos0_inf, cpos0_sup, cpos1_inf, cpos1_sup, pos0_min, pos0_maxin,
                   pos0_max, pos1_min, pos1_maxin, pos1_max, delta, delta1>>
    /\ calls' = Append(calls, "calc_lut")
    /\ UNCHANGED kernelvars

-----------------------------------------------------------------------------
(* HistoBBox1d.calc_lut_nosplit                                            *)

EntriesNosplit(a, idx, p0min, dlt, c1min, c1max, p1min, p1max, target) ==
    IF Masked(a, idx) THEN <<>>
    ELSE IF FilteredPos1(a, idx, c1min, c1max, p1min, p1max) THEN <<>>
    ELSE
    LET fbin0 == get_bin_number(a.pos0[idx], p0min, dlt)
        bin0 == cast_int(fbin0, target)
    IN  IF bin0 < 0 \/ bin0 >= a.bins THEN <<>>
        ELSE cinsert(<<>>, bin0, idx, One)

calc_lut_nosplit ==
    /\ pc = "delta"
    /\ args.cls = "HistoBBox1d"
    /\ ~Splitting(args)
    /\ \E target \in Targets :
          lut' = to_lut(Flatten([i \in 1..args.size |->
                            EntriesNosplit(args, i - 1, pos0_min, delta,
                                           cpos1_inf, cpos1_sup, pos1_min, pos1_max, target)]),
                        args.bins)
    /\ pc' = "done"
    /\ UNCHANGED <<args, cpos0_inf, cpos0_sup, cpos1_inf, cpos1_sup, pos0_min, pos0_maxin,
                   pos0_max, pos1_min, pos1_maxin, pos1_max, delta, delta1>>
    /\ calls' = Append(calls, "calc_lut_nosplit")
    /\ UNCHANGED kernelvars

-----------------------------------------------------------------------------
(* HistoBBox2d.calc_boundaries                                             *)

\* Top and bottom of the wrap interval: (2 - chiDiscAtPi) * pi, (-chiDiscAtPi) * pi.
WrapTop(a) == RMul(R(2 - a.chiDiscAtPi), pi)
WrapBottom(a) == RMul(R(-a.chiDiscAtPi), pi)

\* The four edges of pixel idx as stored in cpos0_inf, cpos0_sup, cpos1_inf, cpos1_sup.
Stored2dInf0(a, idx) == ClampNeg(a, RSub(a.pos0[idx], a.delta_pos0[idx]))
Stored2dSup0(a, idx) == RAdd(a.pos0[idx], a.delta_pos0[idx])
Stored2dInf1(a, idx) ==
    LET lower1 == RSub(a.pos1[idx], a.delta_pos1[idx])
    IN  IF RLt(lower1, WrapBottom(a)) THEN WrapBottom(a) ELSE lower1
Stored2dSup1(a, idx) ==
    LET upper1 == RAdd(a.pos1[idx], a.delta_pos1[idx])
    IN  IF RGt(upper1, WrapTop(a)) THEN WrapTop(a) ELSE upper1

\* pos0_min = pos0_max = cpos0[0]; pos1_min = pos1_max = cpos1[0]
FirstBounds2d(a) ==
    [b0 |-> [min |-> a.pos0[0], max |-> a.pos0[0]],
     b1 |-> [min |-> a.pos1[0], max |-> a.pos1[0]]]

\* The scan loop over both dimensions, pixels idx..size-1.
RECURSIVE Scan2d(_, _, _)
Scan2d(a, idx, b) ==
    IF idx >= a.size THEN b
    ELSE Scan2d(a, idx + 1,
                IF ~Masked(a, idx)
                THEN [b0 |-> Fold(b.b0, Stored2dInf0(a, idx), Stored2dSup0(a, idx)),
                      b1 |-> Fold(b.b1, Stored2dInf1(a, idx), Stored2dSup1(a, idx))]
                ELSE b)

\* (pos0_min, pos0_maxin) and (pos1_min, pos1_maxin) before the final clamp.
Bounds2d(a) ==
    LET scanned == Scan2d(a, 0, FirstBounds2d(a))
    IN  [b0 |-> SelectRange(a.pos0_range, scanned.b0),
         b1 |-> SelectRange(a.pos1_range, scanned.b1)]

calc_boundaries2d ==
    /\ pc = "new"
    /\ args.cls = "HistoBBox2d"
    /\ AssertSizes2d(args) /\ AssertMask(args)
    /\ LET b == Bounds2d(args)
       IN  /\ cpos0_inf' = [idx \in Pixels(args) |-> Stored2dInf0(args, idx)]
           /\ cpos0_sup' = [idx \in Pixels(args) |-> Stored2dSup0(args, idx)]
           /\ cpos1_inf' = [idx \in Pixels(args) |-> Stored2dInf1(args, idx)]
           /\ cpos1_sup' = [idx \in Pixels(args) |-> Stored2dSup1(args, idx)]
           /\ pos0_min' = ClampNeg(args, b.b0.min)
           /\ pos0_maxin' = b.b0.max
           /\ pos0_max' = calc_upper_bound(b.b0.max)
           /\ pos1_min' = b.b1.min
           /\ pos1_maxin' = b.b1.max
           /\ pos1_max' = calc_upper_bound(b.b1.max)
    /\ pc' = "bounds"
    /\ UNCHANGED <<args, delta, delta1, lut>>
    /\ calls' = Append(calls, "calc_boundaries")
    /\ UNCHANGED kernelvars

\* HistoBBox2d.__init__: delta0, delta1
HistoBBox2d_delta ==
    /\ pc = "bounds"
    /\ args.cls = "HistoBBox2d"
    /\ delta' = RDiv(RSub(pos0_max, pos0_min), R(Bins2d(args)[1]))
    /\ delta1' = RDiv(RSub(pos1_max, pos1_min), R(Bins2d(args)[2]))
    /\ pc' = "delta"
    /\ UNCHANGED <<args, cpos0_inf, cpos0_sup, cpos1_inf, cpos1_sup, pos0_min, pos0_maxin,
                   pos0_max, pos1_min, pos1_maxin, pos1_max, lut>>
    /\ UNCHANGED calls
    /\ UNCHANGED kernelvars

-----------------------------------------------------------------------------
(* HistoBBox2d.calc_lut                                                    *)

\* Mutation of Entry2d: the two bin indices are swapped in the combined index.
Entry2d_Transposed(bins1, b0, b1, idx, coef) == [bin |-> b1 * bins1 + b0, idx |-> idx, coef |-> coef]

\* One contribution at the combined index b0 * bins1 + b1.
Entry2d(bins1, b0, b1, idx, coef) == [bin |-> b0 * bins1 + b1, idx |-> idx, coef |-> coef]

\* Spread on several bins in both dimensions (the last branch of calc_lut).
SpreadBoth(bins1, idx, bin0_min, bin0_max, bin1_min, bin1_max, f0min, f0max, f1min, f1max) ==
    LET delta_left == DeltaLow(bin0_min, f0min)
        delta_right == DeltaHigh(bin0_max, f0max)
        delta_down == DeltaLow(bin1_min, f1min)
        delta_up == DeltaHigh(bin1_max, f1max)
        inv_area == RDiv(One, RMul(RSub(f0max, f0min), RSub(f1max, f1min)))
        in0 == Interior(bin0_min, bin0_max)
        in1 == Interior(bin1_min, bin1_max)
    IN  << Entry2d(bins1, bin0_min, bin1_min, idx, RMul(RMul(inv_area, delta_left), delta_down)),
           Entry2d(bins1, bin0_min, bin1_max, idx, RMul(RMul(inv_area, delta_left), delta_up)),
           Entry2d(bins1, bin0_max, bin1_min, idx, RMul(RMul(inv_area, delta_right), delta_down)),
           Entry2d(bins1, bin0_max, bin1_max, idx, RMul(RMul(inv_area, delta_right), delta_up)) >>
        \o Flatten([i \in 1..Len(in0) |->
               << Entry2d(bins1, in0[i], bin1_min, idx, RMul(inv_area, delta_down)) >>
               \o [j \in 1..Len(in1) |-> Entry2d(bins1, in0[i], in1[j], idx, inv_area)]
               \o << Entry2d(bins1, in0[i], bin1_max, idx, RMul(inv_area, delta_up)) >>])
        \o Flatten([j \in 1..Len(in1) |->
               << Entry2d(bins1, bin0_min, in1[j], idx, RMul(inv_area, delta_left)),
                  Entry2d(bins1, bin0_max, in1[j], idx, RMul(inv_area, delta_right)) >>])

\* The contributions inserted for pixel idx, in the order of the insertions.
Entries2d(a, idx, inf0, sup0, inf1, sup1, p0min, p1min, dlt0, dlt1, target) ==
    IF Masked(a, idx) THEN <<>>
    ELSE
    LET bins0 == Bins2d(a)[1]
        bins1 == Bins2d(a)[2]
        fbin0_min == get_bin_number(inf0[idx], p0min, dlt0)
        fbin0_max == get_bin_number(sup0[idx], p0min, dlt0)
        fbin1_min == get_bin_number(inf1[idx], p1min, dlt1)
        fbin1_max == get_bin_number(sup1[idx], p1min, dlt1)
        b0min == cast_int(fbin0_min, target)
        b0max == cast_int(fbin0_max, target)
        b1min == cast_int(fbin1_min, target)
        b1max == cast_int(fbin1_max, target)
        bin0_min == ClampBinMin(b0min)
        bin0_max == ClampBinMax(b0max, bins0)
        bin1_min == ClampBinMin(b1min)
        bin1_max == ClampBinMax(b1max, bins1)
    IN  IF OutOfAxis(b0min, b0max, bins0) \/ OutOfAxis(b1min, b1max, bins1) THEN <<>>
        ELSE IF bin0_min = bin0_max
        THEN IF bin1_min = bin1_max
             THEN << Entry2d(bins1, bin0_min, bin1_min, idx, One) >>
             ELSE LET delta_down == DeltaLow(bin1_min, fbin1_min)
                      delta_up == DeltaHigh(bin1_max, fbin1_max)
                      inv_area == RDiv(One, RSub(fbin1_max, fbin1_min))
                      in1 == Interior(bin1_min, bin1_max)
                  IN  << Entry2d(bins1, bin0_min, bin1_min, idx, RMul(inv_area, delta_down)),
                         Entry2d(bins1, bin0_min, bin1_max, idx, RMul(inv_area, delta_up)) >>
                      \o [j \in 1..Len(in1) |-> Entry2d(bins1, bin0_min, in1[j], idx, inv_area)]
        ELSE IF bin1_min = bin1_max
             THEN LET inv_area == RDiv(One, RSub(fbin0_max, fbin0_min))
                      delta_left == DeltaLow(bin0_min, fbin0_min)
                      delta_right == DeltaHigh(bin0_max, fbin0_max)
                      in0 == Interior(bin0_min, bin0_max)
                  IN  << Entry2d(bins1, bin0_min, bin1_min, idx, RMul(inv_area, delta_left)),
                         Entry2d(bins1, bin0_max, bin1_min, idx, RMul(inv_area, delta_right)) >>
                      \o [i \in 1..Len(in0) |-> Entry2d(bins1, in0[i], bin1_min, idx, inv_area)]
             ELSE SpreadBoth(bins1, idx, bin0_min, bin0_max, bin1_min, bin1_max,
                             fbin0_min, fbin0_max, fbin1_min, fbin1_max)

calc_lut2d ==
    /\ pc = "delta"
    /\ args.cls = "HistoBBox2d"
    /\ \E target \in Targets :
          lut' = to_lut(Flatten([i \in 1..args.size |->
                            Entries2d(args, i - 1, cpos0_inf, cpos0_sup, cpos1_inf, cpos1_sup,
                                      pos0_min, pos1_min, delta, delta1, target)]),
                        Bins2d(args)[1] * Bins2d(args)[2])
    /\ pc' = "done"
    /\ UNCHANGED <<args, cpos0_inf, cpos0_sup, cpos1_inf, cpos1_sup, pos0_min, pos0_maxin,
                   pos0_max, pos1_min, pos1_maxin, pos1_max, delta, delta1>>
    /\ calls' = Append(calls, "calc_lut")
    /\ UNCHANGED kernelvars

-----------------------------------------------------------------------------
(* The constructor's arguments explored by the model.                      *)

\* Number of pixels of the detector.
MaxSize == 2

Idx == 0..(MaxSize - 1)

\* 1D splitting path: (pos0, delta_pos0) of one pixel.
Shapes1d == {<<Rat(3, 2), R(1)>>, <<R(1), R(1)>>, <<R(3), R(2)>>, <<R(1), R(2)>>}

\* Primary coordinates of the no-split path.
Pos0ValsNosplit == {R(-1), Rat(-1, 2), R(0), R(3)}

\* Requested bin counts and explicit ranges; the last range is given upside down.
BinsVals == {1, 4}
Pos0Ranges == {None, <<R(-1), R(3)>>, <<R(2), R(6)>>, <<R(3), R(-1)>>}

\* 1D secondary filter: pixel idx sits at secondary coordinate idx, extent 0.
Pos1Ranges1d == {None, <<R(0), R(0)>>, <<R(1), R(1)>>}
Pos1OfIdx == [idx \in Idx |-> R(idx)]
NoExtent == [idx \in Idx |-> Zero]

Masks == {None} \cup [Idx -> {0, 1}]

\* HistoBBox1d(pos0, delta_pos0, ...) with a usable delta_pos0.
Args1d ==
    \E s0 \in [Idx -> Shapes1d], b \in BinsVals, r0 \in Pos0Ranges,
       r1 \in Pos1Ranges1d, m \in Masks, neg \in BOOLEAN :
       args = [cls |-> "HistoBBox1d", size |-> MaxSize,
               pos0 |-> [idx \in Idx |-> s0[idx][1]],
               delta_pos0 |-> [idx \in Idx |-> s0[idx][2]],
               pos1 |-> IF r1 = None THEN None ELSE Pos1OfIdx,
               delta_pos1 |-> IF r1 = None THEN None ELSE NoExtent,
               bins |-> b, pos0_range |-> r0, pos1_range |-> r1, mask |-> m,
               allow_pos0_neg |-> neg, chiDiscAtPi |-> 1]

\* HistoBBox1d(pos0, None, ...): no pixel splitting.
ArgsNosplit ==
    \E p \in [Idx -> Pos0ValsNosplit], b \in BinsVals, r0 \in Pos0Ranges,
       r1 \in Pos1Ranges1d, m \in Masks, neg \in BOOLEAN :
       args = [cls |-> "HistoBBox1d", size |-> MaxSize, pos0 |-> p, delta_pos0 |-> None,
               pos1 |-> IF r1 = None THEN None ELSE Pos1OfIdx,
               delta_pos1 |-> IF r1 = None THEN None ELSE NoExtent,
               bins |-> b, pos0_range |-> r0, pos1_range |-> r1, mask |-> m,
               allow_pos0_neg |-> neg, chiDiscAtPi |-> 1]

\* 2D pixels: (pos0, delta_pos0, pos1, delta_pos1) of one pixel.
Shapes2d ==
    { <<Rat(3, 2), R(1), Rat(3, 2), R(1)>>,
      <<Rat(3, 2), Rat(1, 4), Rat(3, 2), R(1)>>,
      <<Rat(3, 2), R(1), Rat(3, 2), Rat(1, 4)>>,
      <<Rat(3, 2), Rat(1, 4), Rat(3, 2), Rat(1, 4)>>,
      <<Rat(1, 2), R(1), Rat(5, 2), R(1)>>,
      <<Rat(1, 2), R(1), Rat(1, 2), R(1)>> }
BinsVals2d == {<<3, 4>>}
Pos0Ranges2d == {None, <<R(0), Rat(9, 4)>>}
Pos1Ranges2d == {None, <<R(0), R(3)>>}

\* HistoBBox2d(pos0, delta_pos0, pos1, delta_pos1, ...)
Args2d ==
    \E s \in [Idx -> Shapes2d], b \in BinsVals2d, r0 \in Pos0Ranges2d,
       r1 \in Pos1Ranges2d, m \in Masks, neg \in BOOLEAN, chi \in {0, 1} :
       args = [cls |-> "HistoBBox2d", size |-> MaxSize,
               pos0 |-> [idx \in Idx |-> s[idx][1]],
               delta_pos0 |-> [idx \in Idx |-> s[idx][2]],
               pos1 |-> [idx \in Idx |-> s[idx][3]],
               delta_pos1 |-> [idx \in Idx |-> s[idx][4]],
               bins |-> b, pos0_range |-> r0, pos1_range |-> r1, mask |-> m,
               allow_pos0_neg |-> neg, chiDiscAtPi |-> chi]

Init ==
    /\ pc = "new"
    /\ (Args1d \/ ArgsNosplit \/ Args2d)
    /\ cpos0_inf = None /\ cpos0_sup = None /\ cpos1_inf = None /\ cpos1_sup = None
    /\ pos0_min = Unset /\ pos0_maxin = Unset /\ pos0_max = Unset
    /\ pos1_min = Unset /\ pos1_maxin = Unset /\ pos1_max = Unset
    /\ delta = Unset /\ delta1 = Unset /\ lut = None /\ calls = << >>
    /\ stage = "idle" /\ launch = None /\ group = 0 /\ kpc = None
    /\ accumulator = None /\ active_threads = None /\ scratch = None
    /\ accesses = None /\ preresult = None /\ result = None

Next ==
    \/ calc_boundaries
    \/ calc_boundaries_nosplit
    \/ HistoBBox1d_delta
    \/ calc_lut
    \/ calc_lut_nosplit
    \/ calc_boundaries2d
    \/ HistoBBox2d_delta
    \/ calc_lut2d

Spec == Init /\ [][Next]_vars

-----------------------------------------------------------------------------
(* Constructions on the edge of what the constructors accept: arrays of    *)
(* the wrong size, an absent delta_pos0, bin counts below one, secondary   *)
(* coordinates outside the interval of the discontinuity.                  *)

\* An array with one element more than the detector has pixels.
TooLong(x) == [idx \in 0..MaxSize |-> x]

DeltaPos0Edge == {None, [idx \in Idx |-> One], TooLong(One)}
BinsEdge == {0, 1, 4}
SecondaryEdge ==
    {None, <<Pos1OfIdx, NoExtent>>, <<TooLong(Zero), NoExtent>>, <<Pos1OfIdx, TooLong(Zero)>>}
MasksEdge ==
    {None, [idx \in Idx |-> 0], [idx \in Idx |-> IF idx = 0 THEN 1 ELSE 0], TooLong(0)}

\* HistoBBox1d(...) with arguments on the edge.
ArgsEdge1d ==
    \E p \in [Idx -> {R(1), R(3)}], dp \in DeltaPos0Edge, b \in BinsEdge,
       sec \in SecondaryEdge, m \in MasksEdge :
       args = [cls |-> "HistoBBox1d", size |-> MaxSize, pos0 |-> p, delta_pos0 |-> dp,
               pos1 |-> IF sec = None THEN None ELSE sec[1],
               delta_pos1 |-> IF sec = None THEN None ELSE sec[2],
               bins |-> b, pos0_range |-> None,
               pos1_range |-> IF sec = None THEN None ELSE <<R(0), R(0)>>,
               mask |-> m, allow_pos0_neg |-> FALSE, chiDiscAtPi |-> 1]

\* 2D pixels whose secondary coordinate reaches or leaves [-pi, pi] or [0, 2 pi].
Shapes2dEdge ==
    { <<Rat(3, 2), R(1), Rat(3, 2), R(1)>>,
      <<Rat(3, 2), R(1), R(4), Rat(1, 4)>>,
      <<Rat(3, 2), R(1), R(-4), Rat(1, 4)>>,
      <<Rat(3, 2), R(1), Rat(5, 2), R(1)>>,
      <<Rat(3, 2), R(1), Rat(-5, 2), R(1)>> }
BinsEdge2d == {<<3, 4>>, <<0, 4>>, <<3, -1>>, <<0, 0>>}
Oversized == {"none", "delta_pos0", "pos1", "delta_pos1"}

\* HistoBBox2d(...) with arguments on the edge.
ArgsEdge2d ==
    \E s \in [Idx -> Shapes2dEdge], big \in Oversized, b \in BinsEdge2d,
       m \in MasksEdge, chi \in {0, 1} :
       args = [cls |-> "HistoBBox2d", size |-> MaxSize,
               pos0 |-> [idx \in Idx |-> s[idx][1]],
               delta_pos0 |-> IF big = "delta_pos0" THEN TooLong(One)
                              ELSE [idx \in Idx |-> s[idx][2]],
               pos1 |-> IF big = "pos1" THEN TooLong(Zero)
                        ELSE [idx \in Idx |-> s[idx][3]],
               delta_pos1 |-> IF big = "delta_pos1" THEN TooLong(Zero)
                              ELSE [idx \in Idx |-> s[idx][4]],
               bins |-> b, pos0_range |-> None, pos1_range |-> None, mask |-> m,
               allow_pos0_neg |-> FALSE, chiDiscAtPi |-> chi]

EdgeInit ==
    /\ pc = "new"
    /\ (ArgsEdge1d \/ ArgsEdge2d)
    /\ cpos0_inf = None /\ cpos0_sup = None /\ cpos1_inf = None /\ cpos1_sup = None
    /\ pos0_min = Unset /\ pos0_maxin = Unset /\ pos0_max = Unset
    /\ pos1_min = Unset /\ pos1_maxin = Unset /\ pos1_max = Unset
    /\ delta = Unset /\ delta1 = Unset /\ lut = None /\ calls = << >>
    /\ stage = "idle" /\ launch = None /\ group = 0 /\ kpc = None
    /\ accumulator = None /\ active_threads = None /\ scratch = None
    /\ accesses = None /\ preresult = None /\ result = None

EdgeNext ==
    \/ calc_boundaries
    \/ calc_boundaries_nosplit
    \/ HistoBBox1d_AssertionError
    \/ HistoBBox1d_ZeroDivisionError
    \/ HistoBBox1d_delta
    \/ calc_lut
    \/ calc_lut_nosplit
    \/ HistoBBox2d_AssertionError
    \/ calc_boundaries2d
    \/ HistoBBox2d_delta
    \/ calc_lut2d

EdgeSpec == EdgeInit /\ [][EdgeNext]_vars

-----------------------------------------------------------------------------
(* The range-reduction kernels reduce1 and reduce2 (OpenCL).               *)
(* The work-groups share no local memory and write distinct slots of       *)
(* preresult: they are executed one after the other; the work-items of a   *)
(* group are interleaved freely between two barriers.                      *)

INFINITY == Rat(1, 0)

\* A float2: x is a running minimum, y a running maximum.
Float2(x, y) == [x |-> x, y |-> y]

\* Content of a slot of local or global memory that was never written.
Uninitialized == Float2(Unset, Unset)

\* The identifier tested at the lines 66 and 104; it is declared nowhere in the
\* kernel file: the local index of the work-item.
thread_id_loc(local_index) == local_index

\* get_local_size(0), get_num_groups(0), get_global_size(0), get_global_id(0)
get_local_size == launch.wg
get_num_groups == launch.groups
get_global_size == get_num_groups * get_local_size
get_global_id(local_index) == group * get_local_size + local_index

\* The work-items of a group: get_local_id(0).
LocalIds == 0..(get_local_size - 1)

\* reduce1, "while (global_index < length)": the stride loop of one work-item.
RECURSIVE Accumulate(_, _)
Accumulate(global_index, acc) ==
    IF global_index >= launch.length THEN acc
    ELSE LET element == launch.buffer[global_index]
         IN  Accumulate(global_index + get_global_size,
                        Float2(IF RLt(acc.x, element) THEN acc.x ELSE element,
                               IF RGt(acc.y, element) THEN acc.y ELSE element))

\* mine merged with other, as at the lines 70-71 and 108-109.
Merge(mine, other) ==
    Float2(IF RLt(mine.x, other.x) THEN mine.x ELSE other.x,
           IF RGt(mine.y, other.y) THEN mine.y ELSE other.y)

\* No scratch access since the last barrier.
NoAccess == [li \in LocalIds |-> [r |-> {}, w |-> {}]]

\* The accesses with the slots rd read and the slots wr written by work-item li.
Accessed(li, rd, wr) ==
    [accesses EXCEPT ![li] = [r |-> @.r \cup rd, w |-> @.w \cup wr]]

\* The work-items wait at the barrier that follows the first store.
AtFirstBarrier == "barrier_store"
\* The work-items wait at the barrier that ends a round of the halving loop.
AtLoopBarrier == "barrier_loop"

\* reduce1, lines 40-51: the private accumulation.
reduce1_accumulate ==
    /\ stage = "reduce1"
    /\ \E li \in LocalIds :
          /\ kpc[li] = "start"
          /\ accumulator' = [accumulator EXCEPT ![li] =
                 Accumulate(get_global_id(li), Float2(INFINITY, RNeg(INFINITY)))]
          /\ kpc' = [kpc EXCEPT ![li] = "store"]
    /\ UNCHANGED <<launch, stage, group, active_threads, scratch, accesses, preresult, result>>
    /\ UNCHANGED lutvars

\* reduce1, lines 56-61: scratch[local_index] = accumulator; barrier.
reduce1_store ==
    /\ stage = "reduce1"
    /\ \E li \in LocalIds :
          /\ kpc[li] = "store"
          /\ scratch' = [scratch EXCEPT ![li] = accumulator[li]]
          /\ accesses' = Accessed(li, {}, {li})
          /\ active_threads' = [active_threads EXCEPT ![li] = get_local_size]
          /\ kpc' = [kpc EXCEPT ![li] = AtFirstBarrier]
    /\ UNCHANGED <<launch, stage, group, accumulator, preresult, result>>
    /\ UNCHANGED lutvars

\* reduce2, lines 94-99: scratch[local_index] = preresult[local_index]; barrier.
reduce2_load ==
    /\ stage = "reduce2"
    /\ \E li \in LocalIds :
          /\ kpc[li] = "start"
          /\ scratch' = [scratch EXCEPT ![li] =
                 IF li \in DOMAIN preresult THEN preresult[li] ELSE Uninitialized]
          /\ accesses' = Accessed(li, {}, {li})
          /\ active_threads' = [active_threads EXCEPT ![li] = get_local_size]
          /\ kpc' = [kpc EXCEPT ![li] = AtFirstBarrier]
    /\ UNCHANGED <<launch, stage, group, accumulator, preresult, result>>
    /\ UNCHANGED lutvars

\* barrier(CLK_LOCAL_MEM_FENCE): released once every work-item of the group waits.
barrier ==
    /\ stage \in {"reduce1", "reduce2"}
    /\ \A li \in LocalIds : kpc[li] \in {AtFirstBarrier, AtLoopBarrier}
    /\ kpc' = [li \in LocalIds |-> "loop"]
    /\ accesses' = NoAccess
    /\ UNCHANGED <<launch, stage, group, accumulator, active_threads, scratch, preresult, result>>
    /\ UNCHANGED lutvars

\* Lines 63-81 and 101-119: one test of "active_threads != 2" and one round.
halve ==
    /\ stage \in {"reduce1", "reduce2"}
    /\ \E li \in LocalIds :
          /\ kpc[li] = "loop"
          /\ IF active_threads[li] # 2
             THEN LET half == active_threads[li] \div 2
                  IN  /\ active_threads' = [active_threads EXCEPT ![li] = half]
                      /\ IF thread_id_loc(li) < half
                         THEN /\ scratch' = [scratch EXCEPT ![li] =
                                     Merge(scratch[li],
                                           IF li + half \in LocalIds THEN scratch[li + half]
                                           ELSE Uninitialized)]
                              /\ accesses' = Accessed(li, {li, li + half}, {li})
                         ELSE UNCHANGED <<scratch, accesses>>
                      /\ kpc' = [kpc EXCEPT ![li] = AtLoopBarrier]
             ELSE /\ kpc' = [kpc EXCEPT ![li] = "out"]
                  /\ UNCHANGED <<active_threads, scratch, accesses>>
    /\ UNCHANGED <<launch, stage, group, accumulator, preresult, result>>
    /\ UNCHANGED lutvars

\* reduce1, lines 82-84: work-item 0 writes the partial result of the group.
reduce1_write ==
    /\ stage = "reduce1"
    /\ \E li \in LocalIds :
          /\ kpc[li] = "out"
          /\ IF li = 0
             THEN /\ preresult' = [preresult EXCEPT ![group] = scratch[0]]
                  /\ accesses' = Accessed(li, {0}, {})
             ELSE UNCHANGED <<preresult, accesses>>
          /\ kpc' = [kpc EXCEPT ![li] = "end"]
    /\ UNCHANGED <<launch, stage, group, accumulator, active_threads, scratch, result>>
    /\ UNCHANGED lutvars

\* reduce2, lines 122-124: result[0] = vload4(0, scratch), the slots 0 and 1.
reduce2_write ==
    /\ stage = "reduce2"
    /\ \E li \in LocalIds :
          /\ kpc[li] = "out"
          /\ IF li = 0
             THEN /\ result' = << scratch[0],
                                  IF 1 \in LocalIds THEN scratch[1] ELSE Uninitialized >>
                  /\ accesses' = Accessed(li, {0, 1}, {})
             ELSE UNCHANGED <<result, accesses>>
          /\ kpc' = [kpc EXCEPT ![li] = "end"]
    /\ UNCHANGED <<launch, stage, group, accumulator, active_threads, scratch, preresult>>
    /\ UNCHANGED lutvars

\* Private and local memory of a work-group that starts.
FreshGroup ==
    /\ kpc' = [li \in LocalIds |-> "start"]
    /\ accumulator' = [li \in LocalIds |-> Uninitialized]
    /\ active_threads' = [li \in LocalIds |-> 0]
    /\ scratch' = [li \in LocalIds |-> Uninitialized]
    /\ accesses' = NoAccess

\* A work-group of reduce1 has ended: the next one starts, or reduce2 is enqueued
\* with a single work-group.
next_group ==
    /\ stage = "reduce1"
    /\ \A li \in LocalIds : kpc[li] = "end"
    /\ IF group + 1 < get_num_groups
       THEN group' = group + 1 /\ stage' = stage
       ELSE group' = 0 /\ stage' = "reduce2"
    /\ FreshGroup
    /\ UNCHANGED <<launch, preresult, result>>
    /\ UNCHANGED lutvars

\* reduce2 has ended.
finish ==
    /\ stage = "reduce2"
    /\ \A li \in LocalIds : kpc[li] = "end"
    /\ stage' = "finished"
    /\ UNCHANGED <<launch, group, kpc, accumulator, active_threads, scratch, accesses,
                   preresult, result>>
    /\ UNCHANGED lutvars

\* log2 of the largest WORKGROUP_SIZE explored.
MaxLog2 == 2

\* WORKGROUP_SIZE is a power of two.
WorkgroupSizes == {2^k : k \in 0..MaxLog2}

\* The buffers: the ramp 0..N-1, the ramp reversed, and a peak in the middle.
Buffers(N) ==
    { [i \in 0..(N - 1) |-> R(i)],
      [i \in 0..(N - 1) |-> R(N - 1 - i)],
      [i \in 0..(N - 1) |-> IF i = N \div 2 THEN R(5) ELSE R(1)] }

\* Lengths explored, in multiples of WORKGROUP_SIZE: a buffer shorter than the
\* global size, one that is no multiple of it, and one of twice the global size.
Multiples(w) == {1, w + 1, 2 * w}

\* reduce1 is enqueued with WORKGROUP_SIZE groups, so that reduce2 finds one
\* partial result for each of its work-items.
Launches ==
    UNION { UNION { { [wg |-> w, groups |-> w, length |-> w * m, buffer |-> b]
                      : b \in Buffers(w * m) }
                    : m \in Multiples(w) }
            : w \in WorkgroupSizes }

KernelInit ==
    /\ launch \in Launches
    /\ stage = "reduce1" /\ group = 0
    /\ kpc = [li \in 0..(launch.wg - 1) |-> "start"]
    /\ accumulator = [li \in 0..(launch.wg - 1) |-> Uninitialized]
    /\ active_threads = [li \in 0..(launch.wg - 1) |-> 0]
    /\ scratch = [li \in 0..(launch.wg - 1) |-> Uninitialized]
    /\ accesses = [li \in 0..(launch.wg - 1) |-> [r |-> {}, w |-> {}]]
    /\ preresult = [g \in 0..(launch.groups - 1) |-> Uninitialized]
    /\ result = << Uninitialized, Uninitialized >>
    /\ pc = "idle" /\ args = None
    /\ cpos0_inf = None /\ cpos0_sup = None /\ cpos1_inf = None /\ cpos1_sup = None
    /\ pos0_min = Unset /\ pos0_maxin = Unset /\ pos0_max = Unset
    /\ pos1_min = Unset /\ pos1_maxin = Unset /\ pos1_max = Unset
    /\ delta = Unset /\ delta1 = Unset /\ lut = None /\ calls = << >>

KernelNext ==
    \/ reduce1_accumulate
    \/ reduce1_store
    \/ barrier
    \/ halve
    \/ reduce1_write
    \/ next_group
    \/ reduce2_load
    \/ reduce2_write
    \/ finish

KernelSpec == KernelInit /\ [][KernelNext]_vars

\* The device runs every work-item that can take a step.
KernelFairSpec == KernelSpec /\ WF_vars(KernelNext)

-----------------------------------------------------------------------------
(* Vocabulary of the properties.                                           *)

Done == pc = "done"

Is1d == args.cls = "HistoBBox1d"
Is2d == args.cls = "HistoBBox2d"
IsSplit1d == Is1d /\ Splitting(args)
IsNosplit == Is1d /\ ~Splitting(args)

\* mask[idx] is non-zero
MaskSet(idx) == args.mask # None /\ args.mask[idx] # 0

\* Pixel idx is unmasked and, in 1D, its secondary interval meets the secondary range.
Retained(idx) ==
    /\ ~MaskSet(idx)
    /\ (Is1d /\ args.pos1_range # None) =>
           (~RLt(cpos1_sup[idx], pos1_min) /\ ~RGt(cpos1_inf[idx], pos1_max))

\* The bin widths are positive numbers.
PositiveWidth == RGt(delta, Zero) /\ IsFinite(delta) /\ (Is2d => (RGt(delta1, Zero) /\ IsFinite(delta1)))

\* Number of bins of the finished LUT.
NBins == IF Is1d THEN args.bins ELSE Bins2d(args)[1] * Bins2d(args)[2]

\* The (bin, weight) pairs of the finished LUT that belong to pixel idx.
EntriesOf(idx) ==
    Flatten([b \in 1..NBins |->
        LET sel == SelectSeq(lut[b - 1], LAMBDA e : e.idx = idx)
        IN  [k \in 1..Len(sel) |-> [bin |-> b - 1, coef |-> sel[k].coef]]])

RECURSIVE SumCoef(_)
SumCoef(s) == IF s = <<>> THEN Zero ELSE RAdd(Head(s).coef, SumCoef(Tail(s)))

\* Sum of the weights emitted for pixel idx.
WeightSum(idx) == SumCoef(EntriesOf(idx))

\* Continuous bin positions of the stored edges of pixel idx.
F0Min(idx) == RDiv(RSub(cpos0_inf[idx], pos0_min), delta)
F0Max(idx) == RDiv(RSub(cpos0_sup[idx], pos0_min), delta)
F1Min(idx) == RDiv(RSub(cpos1_inf[idx], pos1_min), delta1)
F1Max(idx) == RDiv(RSub(cpos1_sup[idx], pos1_min), delta1)

\* The stored bounding box of pixel idx lies inside the active range.
Inside0(idx) == RLe(pos0_min, cpos0_inf[idx]) /\ RLe(cpos0_sup[idx], pos0_max)
Inside1(idx) == RLe(pos1_min, cpos1_inf[idx]) /\ RLe(cpos1_sup[idx], pos1_max)
InsideRange(idx) == Inside0(idx) /\ (Is2d => Inside1(idx))

-----------------------------------------------------------------------------
\* C1: partition of unity.  In a LUT finished by a bounding-box splitting builder
\* (HistoBBox1d.calc_lut, HistoBBox2d.calc_lut), the weights of all the entries of
\* an unmasked, retained pixel whose whole bounding box lies inside the active
\* range sum to exactly 1.
C1_PartitionOfUnity ==
    (Done /\ (IsSplit1d \/ Is2d)) =>
        \A idx \in Pixels(args) :
            (Retained(idx) /\ InsideRange(idx)) => WeightSum(idx) = One

\* C1 witness: a finished 2D LUT holding, inside the range, one pixel spread on
\* 3 x 3 bins and one pixel in a single bin; each one's weights sum to 1.
C1_Witness ==
    /\ Done /\ Is2d
    /\ \E i, j \in Pixels(args) :
          /\ Retained(i) /\ InsideRange(i) /\ Len(EntriesOf(i)) = 9 /\ WeightSum(i) = One
          /\ Retained(j) /\ InsideRange(j) /\ Len(EntriesOf(j)) = 1 /\ WeightSum(j) = One

-----------------------------------------------------------------------------
\* Bins of an axis as the builders clamp them, from the mathematical floor.
BinLo(f) == IF Floor(f) < 0 THEN 0 ELSE Floor(f)
BinHi(f, n) == IF Floor(f) >= n THEN n - 1 ELSE Floor(f)

\* Number of bins of the primary axis.
Bins0 == IF Is1d THEN args.bins ELSE Bins2d(args)[1]
Bins1 == Bins2d(args)[2]

\* The pixel reaches the axis and one of its bins had to be clamped.
Clamped0(idx) ==
    /\ Floor(F0Max(idx)) >= 0 /\ Floor(F0Min(idx)) < Bins0
    /\ (Floor(F0Min(idx)) < 0 \/ Floor(F0Max(idx)) >= Bins0)
Clamped1(idx) ==
    /\ Floor(F1Max(idx)) >= 0 /\ Floor(F1Min(idx)) < Bins1
    /\ (Floor(F1Min(idx)) < 0 \/ Floor(F1Max(idx)) >= Bins1)

RMin(a, b) == IF RLt(a, b) THEN a ELSE b
RMax(a, b) == IF RLt(a, b) THEN b ELSE a

\* Fraction of the stored bounding box of pixel idx that lies inside the active range.
InsideFraction0(idx) ==
    RDiv(RSub(RMin(cpos0_sup[idx], pos0_max), RMax(cpos0_inf[idx], pos0_min)),
         RSub(cpos0_sup[idx], cpos0_inf[idx]))
InsideFraction1(idx) ==
    RDiv(RSub(RMin(cpos1_sup[idx], pos1_max), RMax(cpos1_inf[idx], pos1_min)),
         RSub(cpos1_sup[idx], cpos1_inf[idx]))
InsideFraction(idx) ==
    IF Is2d THEN RMul(InsideFraction0(idx), InsideFraction1(idx)) ELSE InsideFraction0(idx)

\* C2 (as claimed): a retained pixel of a splitting builder whose bounding box lies
\* partially outside the active range, one of its bins having been clamped, has a
\* weight sum strictly below 1, equal to the fraction of the box inside the range.
C2_ClippedSumBelowOne ==
    (Done /\ (IsSplit1d \/ Is2d) /\ PositiveWidth) =>
        \A idx \in Pixels(args) :
            ( /\ Retained(idx)
              /\ ~InsideRange(idx)
              /\ IF Is2d
                 THEN /\ Floor(F0Max(idx)) >= 0 /\ Floor(F0Min(idx)) < Bins0
                      /\ Floor(F1Max(idx)) >= 0 /\ Floor(F1Min(idx)) < Bins1
                      /\ (Clamped0(idx) \/ Clamped1(idx))
                 ELSE Clamped0(idx) )
            => (RLt(WeightSum(idx), One) /\ WeightSum(idx) = InsideFraction(idx))

-----------------------------------------------------------------------------
\* C3 (as claimed): in a LUT finished by calc_lut_nosplit, a retained pixel with
\* bin = floor((coordinate - min) / delta) has exactly one entry, in that bin, of
\* weight 1 when 0 <= bin < bins, and no entry otherwise.
C3_NosplitFloorBin ==
    (Done /\ IsNosplit /\ PositiveWidth) =>
        \A idx \in Pixels(args) :
            Retained(idx) =>
                LET bin == Floor(RDiv(RSub(args.pos0[idx], pos0_min), delta))
                IN  IF 0 <= bin /\ bin < args.bins
                    THEN EntriesOf(idx) = << [bin |-> bin, coef |-> One] >>
                    ELSE EntriesOf(idx) = << >>

-----------------------------------------------------------------------------
\* The stored box of pixel idx lies in the half-open active range [min, max).
InsideActive0(idx) == RLe(pos0_min, cpos0_inf[idx]) /\ RLt(cpos0_sup[idx], pos0_max)

\* The weight the 1D splitting rule gives to bin b of a pixel at [fmin, fmax].
SplitWeight(b, fmin, fmax) ==
    LET span == RSub(fmax, fmin)
    IN  IF Floor(fmin) = Floor(fmax) THEN One
        ELSE IF b = Floor(fmin) THEN RDiv(RSub(R(Floor(fmin) + 1), fmin), span)
        ELSE IF b = Floor(fmax) THEN RDiv(RSub(fmax, R(Floor(fmax))), span)
        ELSE RDiv(One, span)

\* C4: in a LUT finished by HistoBBox1d.calc_lut, a retained pixel inside the
\* active range has exactly one entry in every bin of floor(fmin)..floor(fmax) and
\* none elsewhere: weight 1 when the two bins coincide, else ((bin_min+1) - fmin)/span
\* in bin_min, (fmax - bin_max)/span in bin_max and 1/span in every bin between.
C4_Split1dWeights ==
    (Done /\ IsSplit1d /\ PositiveWidth) =>
        \A idx \in Pixels(args) :
            (Retained(idx) /\ InsideActive0(idx)) =>
                LET fmin == F0Min(idx)
                    fmax == F0Max(idx)
                IN  EntriesOf(idx) =
                        [k \in 1..(Floor(fmax) - Floor(fmin) + 1) |->
                            [bin |-> Floor(fmin) + k - 1,
                             coef |-> SplitWeight(Floor(fmin) + k - 1, fmin, fmax)]]

\* C4 witness: bins = 4, min = 0, delta = 1, coordinate 1.5, extent 1.0 give the
\* weights 0.25, 0.5, 0.25 in the bins 0, 1, 2.
C4_Witness ==
    /\ Done /\ IsSplit1d /\ args.bins = 4 /\ pos0_min = Zero /\ delta = One
    /\ \E idx \in Pixels(args) :
          /\ args.pos0[idx] = Rat(3, 2) /\ args.delta_pos0[idx] = One
          /\ Retained(idx) /\ InsideActive0(idx)
          /\ EntriesOf(idx) = << [bin |-> 0, coef |-> Rat(1, 4)],
                                 [bin |-> 1, coef |-> Rat(1, 2)],
                                 [bin |-> 2, coef |-> Rat(1, 4)] >>

-----------------------------------------------------------------------------
\* Edge terms of an axis for a pixel at [fmin, fmax] spread on BinLo..BinHi:
\* 1 for an interior bin, the part of the pixel counted in the first / last bin else.
AxisTerm(b, fmin, fmax, n) ==
    IF b = BinLo(fmin) THEN RSub(R(BinLo(fmin) + 1), fmin)
    ELSE IF b = BinHi(fmax, n) THEN RSub(fmax, R(BinHi(fmax, n)))
    ELSE One

\* The pixel reaches both axes and is spread on more than one bin in each of them.
SpreadInBoth(idx) ==
    /\ Floor(F0Max(idx)) >= 0 /\ Floor(F0Min(idx)) < Bins0
    /\ Floor(F1Max(idx)) >= 0 /\ Floor(F1Min(idx)) < Bins1
    /\ BinLo(F0Min(idx)) < BinHi(F0Max(idx), Bins0)
    /\ BinLo(F1Min(idx)) < BinHi(F1Max(idx), Bins1)

\* C5: in a LUT finished by HistoBBox2d.calc_lut, an unmasked pixel spread on more
\* than one bin in both axes has exactly one entry for every bin (b0, b1) of its
\* rectangle, at the index b0 * bins1 + b1 inside [0, bins0 * bins1), and no other
\* entry; the weight is (axis-0 term * axis-1 term) / (span0 * span1), the term of
\* an axis being its edge overlap in a first or last bin and 1 in an interior bin.
C5_Split2dWeights ==
    (Done /\ Is2d /\ PositiveWidth) =>
        \A idx \in Pixels(args) :
            (Retained(idx) /\ SpreadInBoth(idx)) =>
                LET f0min == F0Min(idx)
                    f0max == F0Max(idx)
                    f1min == F1Min(idx)
                    f1max == F1Max(idx)
                    n0 == BinHi(f0max, Bins0) - BinLo(f0min) + 1
                    n1 == BinHi(f1max, Bins1) - BinLo(f1min) + 1
                    area == RMul(RSub(f0max, f0min), RSub(f1max, f1min))
                IN  EntriesOf(idx) =
                        [k \in 1..(n0 * n1) |->
                            LET b0 == BinLo(f0min) + ((k - 1) \div n1)
                                b1 == BinLo(f1min) + ((k - 1) % n1)
                            IN  [bin |-> b0 * Bins1 + b1,
                                 coef |-> RDiv(RMul(AxisTerm(b0, f0min, f0max, Bins0),
                                                    AxisTerm(b1, f1min, f1max, Bins1)),
                                               area)]]

\* C5 witness: a pixel on 3 x 3 bins of a 3 x 4 LUT, with a corner weight 1/16 at
\* index 0, a border weight 1/8 at index 1 and the interior weight 1/4 at index 5.
C5_Witness ==
    /\ Done /\ Is2d /\ PositiveWidth
    /\ \E idx \in Pixels(args) :
          /\ Retained(idx) /\ SpreadInBoth(idx)
          /\ Len(EntriesOf(idx)) = 9
          /\ EntriesOf(idx)[1] = [bin |-> 0, coef |-> Rat(1, 16)]
          /\ EntriesOf(idx)[2] = [bin |-> 1, coef |-> Rat(1, 8)]
          /\ EntriesOf(idx)[5] = [bin |-> 5, coef |-> Rat(1, 4)]

-----------------------------------------------------------------------------
\* C6: the finished LUT of every builder holds no entry whose pixel is masked.
C6_NoMaskedPixel ==
    Done => \A b \in DOMAIN lut : \A k \in DOMAIN lut[b] : ~MaskSet(lut[b][k].idx)

\* C6 witness: a finished 1D splitting LUT where a masked pixel lying inside the
\* range has no entry while an unmasked pixel has some.
C6_Witness ==
    /\ Done /\ IsSplit1d
    /\ \E i, j \in Pixels(args) :
          /\ MaskSet(i) /\ Inside0(i) /\ EntriesOf(i) = << >>
          /\ ~MaskSet(j) /\ EntriesOf(j) # << >>

-----------------------------------------------------------------------------
\* (pos0_min, pos0_maxin, pos1_min, pos1_maxin) the bounds calculator of the
\* class derives from the arguments a.
DerivedBounds(a) ==
    IF a.cls = "HistoBBox2d"
    THEN LET b == Bounds2d(a)
         IN  [min0 |-> ClampNeg(a, b.b0.min), max0 |-> b.b0.max,
              min1 |-> b.b1.min, max1 |-> b.b1.max]
    ELSE LET b == IF Splitting(a) THEN Bounds1d(a) ELSE BoundsNosplit(a)
         IN  [min0 |-> ClampNeg(a, b.min), max0 |-> b.max,
              min1 |-> pos1_min, max1 |-> pos1_maxin]

\* Other coordinates a masked pixel could have had.
OtherCoordinates == {R(-1), R(5)}

\* The arguments with the coordinates of one masked pixel changed.
MaskedVariants ==
    { [args EXCEPT !.pos0[i] = v] : i \in {j \in Pixels(args) : MaskSet(j)},
                                     v \in OtherCoordinates }
    \cup
    (IF Is2d
     THEN { [args EXCEPT !.pos1[i] = v] : i \in {j \in Pixels(args) : MaskSet(j)},
                                          v \in OtherCoordinates }
     ELSE {})

\* C7 (as claimed): the auto-derived bounds are the same for any two inputs that
\* differ only in the coordinates of masked pixels, wherever the masked pixels are:
\* the bounds derived from the arguments equal those derived from any variant.
C7_MaskedPixelsDoNotMoveBounds ==
    (pc # "new" /\ args.pos0_range = None /\ (Is2d => args.pos1_range = None)) =>
        \A a2 \in MaskedVariants :
            /\ DerivedBounds(a2).min0 = pos0_min
            /\ DerivedBounds(a2).max0 = pos0_maxin
            /\ Is2d => (DerivedBounds(a2).min1 = pos1_min /\ DerivedBounds(a2).max1 = pos1_maxin)

-----------------------------------------------------------------------------
\* C8: under an explicit range (lo, hi) of a dimension, the minimum used is lo
\* (0 when lo < 0 and negative primary coordinates are disallowed) and the true
\* maximum is hi, whatever the pixels and the mask are.
C8_ExplicitRangeVerbatim ==
    /\ (pc # "new" /\ args.pos0_range # None) =>
           /\ pos0_min = (IF ~args.allow_pos0_neg /\ RLt(args.pos0_range[1], Zero)
                          THEN Zero ELSE args.pos0_range[1])
           /\ pos0_maxin = args.pos0_range[2]
    /\ (pc # "new" /\ Is2d /\ args.pos1_range # None) =>
           /\ pos1_min = args.pos1_range[1]
           /\ pos1_maxin = args.pos1_range[2]

\* C8 witness: bounds computed under the range (-1, 3) with negative values
\* disallowed are (0, 3) although an unmasked pixel reaches above 3.
C8_Witness ==
    /\ pc = "bounds" /\ IsSplit1d /\ ~args.allow_pos0_neg
    /\ args.pos0_range = <<R(-1), R(3)>>
    /\ pos0_min = Zero /\ pos0_maxin = R(3)
    /\ \E idx \in Pixels(args) : ~MaskSet(idx) /\ RGt(cpos0_sup[idx], R(3))

-----------------------------------------------------------------------------
\* x with a negative value replaced by 0.
Clamp0(x) == IF RLt(x, Zero) THEN Zero ELSE x

\* C9 (as claimed): with negative primary coordinates disallowed, the value used
\* for the bin assignment of a pixel is the clamped one in the three paths: the
\* stored lower edge of the splitting builders is never negative, and the no-split
\* builder bins a retained pixel where its clamped coordinate falls.
C9_ClampedValueUsed ==
    (Done /\ ~args.allow_pos0_neg /\ PositiveWidth) =>
        \A idx \in Pixels(args) :
            IF IsNosplit
            THEN Retained(idx) =>
                     LET bin == Floor(RDiv(RSub(Clamp0(args.pos0[idx]), pos0_min), delta))
                     IN  (0 <= bin /\ bin < args.bins) =>
                             EntriesOf(idx) = << [bin |-> bin, coef |-> One] >>
            ELSE cpos0_inf[idx] = Clamp0(RSub(args.pos0[idx], args.delta_pos0[idx]))

-----------------------------------------------------------------------------
\* C10 (as claimed): every entry of every finished LUT has a weight w with
\* 0 < w <= 1.  The claim is stated for bins of positive width, where the weights
\* are fractions of a pixel; it is also stated for the entries of clamped bins.
C10_WeightsInHalfOpenUnit ==
    (Done /\ PositiveWidth) =>
        \A b \in DOMAIN lut : \A k \in DOMAIN lut[b] :
            RGt(lut[b][k].coef, Zero) /\ RLe(lut[b][k].coef, One)

-----------------------------------------------------------------------------
\* The unmasked pixels, and the value each one folds into the running maximum.
Unmasked == {idx \in Pixels(args) : ~MaskSet(idx)}
UpperOf(idx) ==
    IF IsNosplit THEN ClampNeg(args, args.pos0[idx])
    ELSE RAdd(args.pos0[idx], args.delta_pos0[idx])

\* Pixel idx holds the true maximum over the unmasked pixels.
HoldsTrueMax(idx) ==
    idx \in Unmasked /\ \A j \in Unmasked : RLe(UpperOf(j), UpperOf(idx))

\* The nudge of the upper bound above pos0_maxin does not exceed one bin width
\* (always so with the float32 epsilon and a usual number of bins).
NudgeWithinOneBin == RLe(RSub(pos0_max, pos0_maxin), delta)

\* C11 (as claimed): under auto-derived bounds of HistoBBox1d, the upper bound used
\* for binning is strictly greater than the true maximum over the unmasked pixels,
\* delta > 0, and a retained unmasked pixel holding that maximum has an entry in
\* bin bins - 1 (its only entry on the no-split path).
C11_LargestInLastBin ==
    (Done /\ Is1d /\ args.pos0_range = None /\ NudgeWithinOneBin) =>
        \A idx \in Pixels(args) :
            (HoldsTrueMax(idx) /\ Retained(idx)) =>
                /\ RGt(pos0_max, UpperOf(idx))
                /\ RGt(delta, Zero)
                /\ \E k \in DOMAIN EntriesOf(idx) : EntriesOf(idx)[k].bin = args.bins - 1
                /\ IsNosplit => EntriesOf(idx) = << [bin |-> args.bins - 1, coef |-> One] >>

-----------------------------------------------------------------------------
\* Minimum and maximum of all the elements of the buffer.
BufferMin == CHOOSE v \in {launch.buffer[i] : i \in DOMAIN launch.buffer} :
                 \A i \in DOMAIN launch.buffer : RLe(v, launch.buffer[i])
BufferMax == CHOOSE v \in {launch.buffer[i] : i \in DOMAIN launch.buffer} :
                 \A i \in DOMAIN launch.buffer : RLe(launch.buffer[i], v)

\* The final pair read from result[0] = (min, max, min, max): the smaller of its
\* two minima and the larger of its two maxima.
FinalMin == RMin(result[1].x, result[2].x)
FinalMax == RMax(result[1].y, result[2].y)

\* C12 (as claimed): once reduce1 then reduce2 have run on a buffer whose length
\* is a multiple of the workgroup size, the final pair (min, max) is the minimum
\* and the maximum of all the elements of the buffer.
C12_ReduceYieldsMinMax ==
    stage = "finished" => (FinalMin = BufferMin /\ FinalMax = BufferMax)


-----------------------------------------------------------------------------
(* An unusable delta_pos0 disables the splitting, nothing more.            *)

\* delta_pos0 as passed: absent, or of another size than pos0.
UnusableExtent == args.delta_pos0 = None \/ Size(args.delta_pos0) # args.size

MaskMismatch == args.mask # None /\ Size(args.mask) # args.size
SecondaryMismatch ==
    /\ args.pos1_range # None
    /\ (Size(args.pos1) # args.size \/ Size(args.delta_pos1) # args.size)

\* Nothing else is wrong with the arguments of HistoBBox1d.
OtherwiseWellFormed == ~MaskMismatch /\ ~SecondaryMismatch /\ args.bins >= 1

NosplitCalls == <<"calc_boundaries_nosplit", "calc_lut_nosplit">>
IsPrefix(s, t) == Len(s) <= Len(t) /\ \A i \in 1..Len(s) : s[i] = t[i]
Failed == pc \in {"AssertionError", "ZeroDivisionError"}

\* C13: when HistoBBox1d is given a delta_pos0 that is absent or whose size is not
\* that of pos0, the methods it calls are calc_boundaries_nosplit and then
\* calc_lut_nosplit, never calc_boundaries or calc_lut; a finished construction has
\* called exactly these two; and with arguments that are otherwise well formed the
\* construction never fails: no assertion, no division by zero, and the steps that
\* could raise (the bounds on the no-split path, then delta) can be taken.
C13_UnusableExtentDisablesSplitting ==
    (Is1d /\ UnusableExtent) =>
        /\ IsPrefix(calls, NosplitCalls)
        /\ Done => calls = NosplitCalls
        /\ OtherwiseWellFormed =>
              /\ ~Failed
              /\ pc = "new" => ENABLED calc_boundaries_nosplit
              /\ pc = "bounds" => ENABLED HistoBBox1d_delta

\* A finished construction whose delta_pos0 had one element too many.
C13_Witness ==
    /\ Done /\ Is1d
    /\ args.delta_pos0 # None /\ Size(args.delta_pos0) # args.size
    /\ calls = NosplitCalls
    /\ \E bin \in DOMAIN lut : lut[bin] # << >>


-----------------------------------------------------------------------------
(* Arrays of the wrong size are refused.                                   *)

Malformed1d == Is1d /\ (MaskMismatch \/ SecondaryMismatch)
Malformed2d ==
    /\ Is2d
    /\ \/ MaskMismatch
       \/ Size(args.delta_pos0) # args.size
       \/ Size(args.pos1) # args.size
       \/ Size(args.delta_pos1) # args.size

\* No LUT exists and none was computed.
NoLut ==
    /\ lut = None /\ ~Done
    /\ \A i \in 1..Len(calls) : calls[i] \notin {"calc_lut", "calc_lut_nosplit"}

\* C14: a construction whose mask has not the size of pos0, or (1D) which asks for a
\* secondary range with a pos1 or delta_pos1 of another size, never gets a LUT and
\* ends in the AssertionError: with a wrong mask before any method was called, with
\* wrong secondary arrays at the latest right after the bounds; in 2D a wrong size of
\* the mask, delta_pos0, pos1 or delta_pos1 is refused before any method is called.
C14_WrongSizesRejected ==
    /\ Malformed1d =>
          /\ NoLut
          /\ pc \in {"new", "bounds", "AssertionError"}
          /\ MaskMismatch => (calls = << >> /\ pc \in {"new", "AssertionError"})
          /\ (pc = "bounds" \/ MaskMismatch) /\ pc # "AssertionError" =>
                 ENABLED HistoBBox1d_AssertionError
    /\ Malformed2d =>
          /\ NoLut
          /\ calls = << >>
          /\ pc \in {"new", "AssertionError"}
          /\ pc = "new" => ENABLED HistoBBox2d_AssertionError

\* HistoBBox1d refused for its secondary arrays, after its bounds were computed.
C14_Witness ==
    /\ pc = "AssertionError" /\ Is1d
    /\ ~MaskMismatch /\ SecondaryMismatch
    /\ calls = <<"calc_boundaries">>
    /\ lut = None


-----------------------------------------------------------------------------
(* Bin counts below one.                                                   *)

\* The bin counts the constructor keeps and divides by.
UsedBins == IF Is1d THEN <<args.bins>> ELSE Bins2d(args)

\* C15: every bin count used to size the LUT and to compute delta is at least 1, a
\* requested count <= 0 being raised to 1 in HistoBBox1d as in HistoBBox2d; delta
\* is never computed by dividing by zero.
C15_BinCountsAtLeastOne ==
    /\ pc # "ZeroDivisionError"
    /\ pc \in {"delta", "done"} =>
          /\ \A i \in DOMAIN UsedBins : UsedBins[i] >= 1
          /\ delta = RDiv(RSub(pos0_max, pos0_min), R(UsedBins[1]))
          /\ Done => DOMAIN lut = 0..(NBins - 1)


-----------------------------------------------------------------------------
(* The secondary coordinate and the interval of the discontinuity.         *)

InWrap(x) == RLe(WrapBottom(args), x) /\ RLe(x, WrapTop(args))

\* C16: in the 2D builder, once the bounds are computed, the stored lower and upper
\* secondary edges of every pixel lie within [bottom, top] = [-pi, pi] (chiDiscAtPi
\* true) or [0, 2 pi] (false), and so do the secondary minimum and maximum when
\* they are derived from the pixels, whatever the input.
C16_SecondaryWithinWrap ==
    (Is2d /\ pc \in {"bounds", "delta", "done"}) =>
        /\ \A idx \in Pixels(args) : InWrap(cpos1_inf[idx]) /\ InWrap(cpos1_sup[idx])
        /\ args.pos1_range = None => (InWrap(pos1_min) /\ InWrap(pos1_maxin))


-----------------------------------------------------------------------------
(* The barriers of reduce1 and reduce2.                                    *)

Waiting(li) == kpc[li] \in {AtFirstBarrier, AtLoopBarrier}

\* No work-item has left the halving loop, or waits at another barrier, or in
\* another round, while a work-item of its group waits at a barrier.
SameBarriers ==
    \A li, lj \in DOMAIN kpc :
        Waiting(li) =>
            /\ kpc[lj] \notin {"out", "end"}
            /\ Waiting(lj) => (kpc[lj] = kpc[li] /\ active_threads[lj] = active_threads[li])

\* Between two barriers, no slot of scratch written by a work-item is read or
\* written by another one.
NoConflict ==
    \A li, lj \in DOMAIN accesses :
        li # lj => accesses[li].w \cap (accesses[lj].r \cup accesses[lj].w) = {}

\* C17: for every WORKGROUP_SIZE that is a power of two, in reduce1 and in reduce2
\* the work-items of a group go through the same barriers (none leaves the halving
\* loop while another waits), no work-item reads a slot of scratch that another
\* writes in the same round, and the halving loops terminate: both kernels end.
C17_BarrierProtocol == [](SameBarriers /\ NoConflict) /\ <>(stage = "finished")

====
